---- MODULE Spec2Model ----
(***************************************************************************)
(* The unauthenticated-user journey of                                     *)
(* tests/episode-01-spotify-unauthenticated-flow.spec.ts, run by the       *)
(* Playwright runner configured in playwright.config.ts.                   *)
(*                                                                         *)
(* One run of the test per selected project.  A run is a record: its       *)
(* position in the twelve test.step calls, its outcome, the error that     *)
(* ended it, the page it drives (URL, the elements its locators can        *)
(* resolve to) and the local variables of the step that ran last.  The     *)
(* third-party page is the environment: what each probe of a step sees is  *)
(* an input of the step, drawn from a small set.  Locators are lazy, as in *)
(* Playwright: a locator is a name, resolved against the page each time it *)
(* is used, and every operation on a locator except count() is strict (it  *)
(* throws when the locator resolves to more than one element).             *)
(* Within one step, and from the album-locate step to the album-click      *)
(* step, the page is taken to be stable, with one exception: a play button *)
(* that was hidden while the strategies probed it may have become visible  *)
(* when the assertion after them waits for it.                             *)
(***************************************************************************)
EXTENDS Integers, Sequences, FiniteSets, TLC

VARIABLES run, files, selected

vars == <<run, files, selected>>

(* ------------------------------ bounds -------------------------------- *)

\* Most result entries on the search page that a run's locators can match.
MaxEntries == 2

\* Most buttons on the album page that a run's locators can match.
MaxButtons == 2

(* ----------------------- configuration and names ---------------------- *)

Projects == {"Chromium", "Firefox", "WebKit"}

StepNames ==
  <<"Navigate to Spotify Web homepage",
    "Locate and validate language selection button",
    "Open language selection menu",
    "Select Portuguese (Brazil) language option",
    "Validate language change took effect",
    "Locate and interact with search input field",
    "Type search query for Pink Floyd",
    "Wait for search results and locate The Dark Side of the Moon album",
    "Click on The Dark Side of the Moon album",
    "Locate and click the main album play button",
    "Validate play action and handle authentication modal",
    "Final validation and cleanup">>

NumSteps == Len(StepNames)

\* page.url() values, by what the test's URL checks can tell apart.
HomeUrl   == "https://open.spotify.com/"
SearchUrl == "https://open.spotify.com/search/pink%20floyd"
AlbumUrl  == "https://open.spotify.com/album/4LH4d3cOWNNsVw41Gqt2kv"
LoginUrl  == "https://accounts.spotify.com/login"
AlienUrl  == "https://example.org/album/4LH4d3cOWNNsVw41Gqt2kv"
OtherAlbumUrl == "https://open.spotify.com/album/0ETFjACtuP2ADo6LFhL6HN"

Urls ==
  {"about:blank", HomeUrl, SearchUrl, AlbumUrl, LoginUrl, AlienUrl,
   OtherAlbumUrl}

\* toHaveURL(/open\.spotify\.com/), toContain('open.spotify.com')
ContainsHost(url) == url \in {HomeUrl, SearchUrl, AlbumUrl, OtherAlbumUrl}

\* toContain('/album/')
ContainsAlbum(url) == url \in {AlbumUrl, AlienUrl, OtherAlbumUrl}

\* The screenshot paths of the test, in source order.
Evidence ==
  <<"evidence/01-spotify-homepage-loaded.png",
    "evidence/02-language-button-located.png",
    "evidence/03-language-selection-opened.png",
    "evidence/03-language-click-result.png",
    "evidence/04-before-selecting-pt-br.png",
    "evidence/05-after-selecting-pt-br.png",
    "evidence/06-before-clicking-search.png",
    "evidence/07-search-query-entered.png",
    "evidence/08-search-suggestions-appeared.png",
    "evidence/09-search-results-with-dark-side.png",
    "evidence/10-before-clicking-album.png",
    "evidence/11-album-page-loaded.png",
    "evidence/12-before-clicking-play.png",
    "evidence/13-portuguese-authentication-modal.png",
    "evidence/14-authentication-state-analysis.png",
    "evidence/15-test-completion-state.png">>

Paths == {Evidence[i] : i \in 1..Len(Evidence)}

\* Locators of the language and search steps.
LanguageButton == "getByTestId('language-selection-button')"
PtBROption     == "getByTestId('language-option-pt-BR')"
SearchInput    == "getByTestId('search-input')"

(* --------------------------- the run record --------------------------- *)

NoError == [kind |-> "none", target |-> "", step |-> 0]

NoButton ==
  [role |-> FALSE, text |-> "none", tracklist |-> FALSE, visible |-> FALSE]

\* The locals of a step that has just begun: nothing asserted, written or
\* resolved yet.  failed: the source lines of the expect calls that did not
\* hold; soft: the optional checks that lapsed; wrote: screenshots written.
\* handle: the locator the step's resolution settled on; used: the strategy
\* name it recorded; attempted: the strategies it tried, in order.  For the
\* play-button step, candidates: whether each strategy's candidate was
\* visible; target: the index on the page of the button it clicked (0: none);
\* button: that button.
Locals(k) ==
  [step |-> k, failed |-> {}, soft |-> {}, wrote |-> {}, probe |-> "none",
   handle |-> "undefined", used |-> "", attempted |-> <<>>, target |-> 0,
   candidates |-> <<>>, button |-> NoButton]

NotStarted ==
  [outcome |-> "NotStarted", pc |-> 0, blocked |-> FALSE, error |-> NoError,
   url |-> "about:blank", dom |-> <<>>, prompt |-> "unknown",
   acts |-> <<>>, loc |-> Locals(0)]

Err(kind, target) == [kind |-> kind, target |-> target, step |-> 0]

\* A step begins: its locals are fresh.
Begin(s) == [s EXCEPT !.loc = Locals(s.pc)]

\* A page action (goto, click, fill, clear) of the running step.
Act(s, op, target) == [s EXCEPT !.acts = Append(@, <<s.pc, op, target>>)]

\* An expect call at source line `line` did not hold.
Failed(s, line) == [s EXCEPT !.loc.failed = @ \cup {line}]

\* An optional check lapsed and was absorbed by its catch block.
SoftMiss(s, what) == [s EXCEPT !.loc.soft = @ \cup {what}]

\* page.screenshot({path}) resolved: the file is written.
Wrote(s, path) == [s EXCEPT !.loc.wrote = @ \cup {path}]

\* A test body that swallows the exception of a step and goes on to the
\* next one.
ThrowSwallowed(s, e) ==
  [s EXCEPT !.pc = @ + 1,
            !.outcome = IF s.pc = NumSteps THEN "Verified" ELSE "Running"]

\* An exception leaves the step callback: `await test.step(...)` rethrows it
\* into the test body, which has no handler, so the test ends here.
Throw(s, e) ==
  [s EXCEPT !.outcome = "Failed",
            !.error = [kind |-> e.kind, target |-> e.target, step |-> s.pc]]

\* The step callback returns: the test body goes on to the next test.step,
\* or, after the last one, the test passes.
Return(s) ==
  [s EXCEPT !.pc = @ + 1,
            !.outcome = IF s.pc = NumSteps THEN "Verified" ELSE "Running"]

\* An await with no timeout of its own (actionTimeout: 0, no
\* navigationTimeout) never settles: only the test timeout ends the step.
Stall(s) == [s EXCEPT !.blocked = TRUE]

(* ---------------------------- steps 1 to 4 ---------------------------- *)

In1 ==
  [nav : {"ok", "error", "stall"}, url : {HomeUrl, LoginUrl},
   title : BOOLEAN, shot : BOOLEAN]

NavigateToHomepage(s, in) ==
  LET s0 == Act(Begin(s), "goto", HomeUrl)
      s1 == [s0 EXCEPT !.url = in.url]
  IN  IF in.nav = "stall" THEN Stall(s0)
      ELSE IF in.nav = "error" THEN Throw(s0, Err("goto", HomeUrl))
      ELSE IF ~ContainsHost(in.url)
        THEN Throw(Failed(s1, 50), Err("toHaveURL", "page"))
      ELSE IF ~in.title
        THEN Throw(Failed(s1, 51), Err("toHaveTitle", "page"))
      ELSE IF ~in.shot THEN Throw(s1, Err("screenshot", Evidence[1]))
      ELSE Return(Wrote(s1, Evidence[1]))

\* What a step sees of one element it addresses by test id.
\* text: "" (empty), " " (blank) or a label.
ElementStates ==
  [visible : BOOLEAN, enabled : BOOLEAN, text : {"", " ", "label"}]

Trimmed(text) == IF text = " " THEN "" ELSE text

In2 == [button : ElementStates, shot : BOOLEAN]

ValidateLanguageButton(s, in) ==
  LET s0 == Begin(s)
      b  == in.button
  IN  IF ~b.visible
        THEN Throw(Failed(s0, 67), Err("toBeVisible", LanguageButton))
      ELSE IF ~b.enabled
        THEN Throw(Failed(s0, 68), Err("toBeEnabled", LanguageButton))
      ELSE IF b.text = ""
        THEN Throw(Failed(s0, 75), Err("toBeTruthy", "buttonText"))
      ELSE IF Trimmed(b.text) = ""
        THEN Throw(Failed(s0, 76), Err("toBeGreaterThan", "buttonText"))
      ELSE IF ~in.shot THEN Throw(s0, Err("screenshot", Evidence[2]))
      ELSE Return(Wrote(s0, Evidence[2]))

\* menu: the dropdown or an option became visible within 3000 ms.
In3 ==
  [click : {"ok", "stall"}, menu : BOOLEAN, shotOpened : BOOLEAN,
   shotResult : BOOLEAN]

OpenLanguageMenu(s, in) ==
  LET s0 == Begin(s)
      s1 == Act(s0, "click", LanguageButton)
      \* the catch block: log, capture, fall out of the try statement
      Caught(t) ==
        IF ~in.shotResult THEN Throw(t, Err("screenshot", Evidence[4]))
        ELSE Return(Wrote(t, Evidence[4]))
  IN  IF in.click = "stall" THEN Stall(s0)
      ELSE IF ~in.menu THEN Caught(SoftMiss(s1, "language menu"))
      ELSE IF ~in.shotOpened THEN Caught(s1)
      ELSE Return(Wrote(s1, Evidence[3]))

In4 ==
  [option : ElementStates, shot : BOOLEAN, click : {"ok", "stall"},
   idle : BOOLEAN]

\* The step without its assertions: it clicks the option whatever it sees.
SelectPortugueseSoft(s, in) ==
  Return(Act([Begin(s) EXCEPT !.loc.probe =
                IF in.option.visible THEN "visible" ELSE "hidden"],
             "click", PtBROption))

SelectPortuguese(s, in) ==
  LET o  == in.option
      s0 == [Begin(s) EXCEPT !.loc.probe =
               IF o.visible THEN "visible" ELSE "hidden"]
      s1 == Wrote(s0, Evidence[5])
      s2 == Act(s1, "click", PtBROption)
  IN  IF ~o.visible
        THEN Throw(Failed(s0, 136), Err("toBeVisible", PtBROption))
      ELSE IF ~o.enabled
        THEN Throw(Failed(s0, 137), Err("toBeEnabled", PtBROption))
      ELSE IF o.text = ""
        THEN Throw(Failed(s0, 144), Err("toBeTruthy", "optionText"))
      ELSE IF Trimmed(o.text) = ""
        THEN Throw(Failed(s0, 145), Err("toBeGreaterThan", "optionText"))
      ELSE IF ~in.shot THEN Throw(s0, Err("screenshot", Evidence[5]))
      ELSE IF in.click = "stall" THEN Stall(s1)
      ELSE IF ~in.idle THEN Stall(s2)
      ELSE Return(s2)

(* ---------------------------- steps 5 to 7 ---------------------------- *)

\* portuguese: an element with text matching
\* /Pesquisar|Entrar|Criar conta|Português|Brasil/i became visible in 5000 ms.
In5 == [button : BOOLEAN, portuguese : BOOLEAN, shot : BOOLEAN]

ValidateLanguageChange(s, in) ==
  LET s0 == [Begin(s) EXCEPT !.loc.probe =
               IF in.portuguese THEN "visible" ELSE "hidden"]
      \* try { waitFor, count, textContent } catch { log }
      s1 == IF in.portuguese THEN s0 ELSE SoftMiss(s0, "portuguese text")
  IN  IF ~in.button
        THEN Throw(Failed(s0, 168), Err("toBeVisible", LanguageButton))
      ELSE IF ~in.shot THEN Throw(s1, Err("screenshot", Evidence[6]))
      ELSE Return(Wrote(s1, Evidence[6]))

In6 ==
  [input : [visible : BOOLEAN, enabled : BOOLEAN, editable : BOOLEAN,
            placeholder : {"", "label"}],
   shot : BOOLEAN, click : {"ok", "stall"}, focused : BOOLEAN]

FocusSearchInput(s, in) ==
  LET s0 == Begin(s)
      i  == in.input
      s1 == Wrote(s0, Evidence[7])
      s2 == Act(s1, "click", SearchInput)
  IN  IF ~i.visible
        THEN Throw(Failed(s0, 202), Err("toBeVisible", SearchInput))
      ELSE IF ~i.enabled
        THEN Throw(Failed(s0, 203), Err("toBeEnabled", SearchInput))
      ELSE IF ~i.editable
        THEN Throw(Failed(s0, 204), Err("toBeEditable", SearchInput))
      ELSE IF i.placeholder = ""
        THEN Throw(Failed(s0, 211), Err("toBeTruthy", "placeholder"))
      ELSE IF ~in.shot THEN Throw(s0, Err("screenshot", Evidence[7]))
      ELSE IF in.click = "stall" THEN Stall(s1)
      ELSE IF ~in.focused
        THEN Throw(Failed(s2, 224), Err("toBeFocused", SearchInput))
      ELSE Return(s2)

\* suggestions: a suggestion element became visible within 2000 ms.
In7 ==
  [edit : {"ok", "stall"}, value : BOOLEAN, shot : BOOLEAN,
   suggestions : BOOLEAN, shotSuggestions : BOOLEAN]

TypeSearchQuery(s, in) ==
  LET s0 == Begin(s)
      s1 == Act(Act(s0, "clear", SearchInput), "fill", SearchInput)
      s2 == [Wrote(s1, Evidence[8]) EXCEPT !.url = SearchUrl]
      \* try { waitFor, count, screenshot } catch { log }
      s3 == IF ~in.suggestions THEN SoftMiss(s2, "search suggestions")
            ELSE IF ~in.shotSuggestions THEN s2
            ELSE Wrote(s2, Evidence[9])
  IN  IF in.edit = "stall" THEN Stall(s0)
      ELSE IF ~in.value
        THEN Throw(Failed(s1, 243), Err("toHaveValue", SearchInput))
      ELSE IF ~in.shot THEN Throw(s1, Err("screenshot", Evidence[8]))
      ELSE Return(s3)

(* -------------------- locators and their resolution ------------------- *)

\* The album locators of the locate and click steps.
ExactText      == "getByText('The Dark Side of the Moon', { exact: true })"
PartialText    == "locator('text=The Dark Side of the Moon')"
TitleAttr      == "locator('[title*=The Dark Side of the Moon]')"
CardFilter     == "locator('[data-testid*=card]').filter({ hasText })"
TitleAttrFirst == "locator('[title*=The Dark Side of the Moon]').first()"

\* The play-button locators.
RolePlayFirst == "getByRole('button', { name: /^Play$/i }).first()"
TextPlayFirst == "locator('button').filter({ hasText: /^Play$/i }).first()"
AllButtons    == "getByRole('button')"
TracklistPlay == "tracklistArea.locator('button', { hasText: /^Play$/i })"

\* allButtons.nth(i - 1), for each index the scan of a page can reach.
NthButton ==
  [i \in 1..(MaxButtons + 1) |->
     "getByRole('button').nth(" \o ToString(i - 1) \o ")"]

Nth(i) == NthButton[i]

\* A result entry of the search page.  text: the entry's text is exactly the
\* album title ("exact"), contains it among other text or in another case
\* ("contains"), or does not contain it ("other").
Entries ==
  {e \in [text : {"exact", "contains", "other"}, title : BOOLEAN,
          card : BOOLEAN, visible : BOOLEAN] :
     e.text # "other" \/ (e.title /\ ~e.card)}

\* A button of the album page.  role: its accessible name matches /^Play$/i;
\* text: its text content is 'Play' or is not; tracklist: it lies in the
\* tracklist area.
Buttons ==
  {b \in [role : BOOLEAN, text : {"Play", "other"}, tracklist : BOOLEAN,
          visible : BOOLEAN] :
     b.role \/ b.text = "Play"}

\* The same set, enumerated once.
Enumerated(S) == {x : x \in S}

SeqsUpTo(S, n) == UNION {[1..m -> S] : m \in 0..n}

SearchPages == SeqsUpTo(Entries, MaxEntries)

AlbumPages == SeqsUpTo(Buttons, MaxButtons)

\* Whether element e is selected by the query of locator l.
Matches(e, l) ==
  CASE l = ExactText      -> e.text = "exact"
    [] l = PartialText    -> e.text \in {"exact", "contains"}
    [] l = TitleAttr      -> e.title
    [] l = TitleAttrFirst -> e.title
    [] l = CardFilter     -> e.card /\ e.text # "other"
    [] l = RolePlayFirst  -> e.role
    [] l = TextPlayFirst  -> e.text = "Play"
    [] l = TracklistPlay  -> e.tracklist /\ e.text = "Play"
    [] l = AllButtons     -> TRUE
    [] OTHER              -> FALSE

IsFirst(l) == l \in {TitleAttrFirst, RolePlayFirst, TextPlayFirst}

Min(S) == CHOOSE i \in S : \A j \in S : i <= j

\* The indices of the elements a query locator resolves to; .first() keeps
\* the first in document order.
ResolveAll(l, dom) ==
  LET all == {i \in 1..Len(dom) : Matches(dom[i], l)}
  IN  IF IsFirst(l) /\ all # {} THEN {Min(all)} ELSE all

\* The indices of the elements locator l resolves to.
Resolve(l, dom) ==
  IF \E i \in DOMAIN NthButton : l = Nth(i)
    THEN {i \in 1..Len(dom) : l = Nth(i)}
    ELSE ResolveAll(l, dom)

\* locator.count()
Count(l, dom) == Cardinality(Resolve(l, dom))

\* A visibility wait that is not strict: it looks at the first of the
\* elements the locator resolves to.
ProbeFirst(l, dom) ==
  LET m == Resolve(l, dom)
  IN  IF m # {} /\ dom[Min(m)].visible THEN "visible" ELSE "timeout"

\* locator.waitFor({ state: 'visible' }) and expect(locator).toBeVisible():
\* "strict" when the locator resolves to several elements (the call throws a
\* strict mode violation), "visible" when its one element is visible, and
\* "timeout" when the wait lapses.
Probe(l, dom) ==
  LET m == Resolve(l, dom)
  IN  IF Cardinality(m) > 1 THEN "strict"
      ELSE IF m # {} /\ dom[Min(m)].visible THEN "visible"
      ELSE "timeout"

\* The element an action or read on locator l addresses (0: none).
Target(l, dom) ==
  LET m == Resolve(l, dom) IN IF Cardinality(m) = 1 THEN Min(m) ELSE 0

(* --------------------- step 8: locate the album ----------------------- *)

WaitError(p) == IF p = "strict" THEN "strict mode violation" ELSE "timeout"

\* The nested try/catch chain of the locate step: each strategy assigns
\* darkSideAlbum, waits for it to be visible, and on success records
\* selectorUsed; the catch of a strategy runs the next one; the last
\* strategy's wait is in no try block.
LocateChain(dom) ==
  LET p4 == Probe(CardFilter, dom)
  IN  IF Probe(ExactText, dom) = "visible"
        THEN [ok |-> TRUE, handle |-> ExactText, used |-> "exact text match",
              attempted |-> <<ExactText>>, error |-> NoError]
      ELSE IF Probe(PartialText, dom) = "visible"
        THEN [ok |-> TRUE, handle |-> PartialText,
              used |-> "partial text match",
              attempted |-> <<ExactText, PartialText>>, error |-> NoError]
      ELSE IF Probe(TitleAttr, dom) = "visible"
        THEN [ok |-> TRUE, handle |-> TitleAttr, used |-> "title attribute",
              attempted |-> <<ExactText, PartialText, TitleAttr>>,
              error |-> NoError]
      ELSE IF p4 = "visible"
        THEN [ok |-> TRUE, handle |-> CardFilter,
              used |-> "data-testid + text filter fallback",
              attempted |-> <<ExactText, PartialText, TitleAttr, CardFilter>>,
              error |-> NoError]
      ELSE [ok |-> FALSE, handle |-> CardFilter, used |-> "",
            attempted |-> <<ExactText, PartialText, TitleAttr, CardFilter>>,
            error |-> Err(WaitError(p4), CardFilter)]

\* The search pages on which one of the strategies finds the album.
LocatablePages == {page \in SearchPages : LocateChain(page).ok}

\* page: the result entries the search page shows once the network is idle;
\* enabled and shot are consumed only if the step gets to them.
In8 ==
  Enumerated(
    {[idle |-> FALSE, page |-> <<>>, enabled |-> TRUE, shot |-> TRUE]}
    \cup {[idle |-> TRUE, page |-> p, enabled |-> TRUE, shot |-> TRUE] :
            p \in SearchPages \ LocatablePages}
    \cup {[idle |-> TRUE, page |-> p, enabled |-> t[1], shot |-> t[2]] :
            p \in LocatablePages,
            t \in {<<TRUE, TRUE>>, <<TRUE, FALSE>>, <<FALSE, TRUE>>}})

\* The locate step with strategies that click the candidate they probe.
LocateAlbumProbeClicks(s, in) ==
  LET dom == in.page
      c   == LocateChain(dom)
      s0  == Begin(s)
      s1  == Act([s0 EXCEPT !.dom = dom, !.loc.handle = c.handle,
                            !.loc.used = c.used,
                            !.loc.attempted = c.attempted],
                 "click", c.handle)
  IN  IF ~in.idle THEN Stall(s0)
      ELSE IF ~c.ok THEN Throw(s1, c.error)
      ELSE IF dom[Target(c.handle, dom)].text = "other"
        THEN Throw(Failed(s1, 324), Err("toMatch", "albumText"))
      ELSE IF ~in.enabled
        THEN Throw(Failed(s1, 327), Err("toBeEnabled", c.handle))
      ELSE IF ~in.shot THEN Throw(s1, Err("screenshot", Evidence[10]))
      ELSE Return(Wrote(s1, Evidence[10]))

LocateAlbum(s, in) ==
  LET dom == in.page
      c   == LocateChain(dom)
      s0  == Begin(s)
      s1  == [s0 EXCEPT !.dom = dom, !.loc.handle = c.handle,
                        !.loc.used = c.used, !.loc.attempted = c.attempted]
  IN  IF ~in.idle THEN Stall(s0)
      ELSE IF ~c.ok THEN Throw(s1, c.error)
      ELSE IF Probe(c.handle, dom) # "visible"
        THEN Throw(Failed(s1, 316), Err("toBeVisible", c.handle))
      \* darkSideAlbum.textContent() is strict as well
      ELSE IF Target(c.handle, dom) = 0
        THEN Throw(s1, Err("strict mode violation", c.handle))
      ELSE IF dom[Target(c.handle, dom)].text = "other"
        THEN Throw(Failed(s1, 324), Err("toMatch", "albumText"))
      ELSE IF ~in.enabled
        THEN Throw(Failed(s1, 327), Err("toBeEnabled", c.handle))
      ELSE IF ~in.shot THEN Throw(s1, Err("screenshot", Evidence[10]))
      ELSE Return(Wrote(s1, Evidence[10]))

(* ---------------------- step 9: click the album ----------------------- *)

\* The album-page indicators, in the order of the albumPageIndicators array.
Indicators ==
  <<"locator('h1').filter({ hasText: /The Dark Side of the Moon/i })",
    "locator('[data-testid=album-title]')",
    "locator('[data-testid=entity-title]')",
    "getByText('The Dark Side of the Moon')">>

\* What the loop sees of each indicator: its wait lapses (or is a strict mode
\* violation), or it is visible with a text that matches the title or does
\* not.  The first and the last select by the title, so their text matches.
\* Indicators after the first match are not looked at.
IndicatorViews ==
  {f \in [1..Len(Indicators) -> {"lapse", "match", "nomatch"}] :
     /\ f[1] # "nomatch" /\ f[4] # "nomatch"
     /\ \A i, j \in 1..Len(Indicators) :
          (i < j /\ f[i] = "match") => f[j] = "lapse"}

\* for (const indicator of albumPageIndicators) { try {...} catch { continue } }
\* from indicator i on: whether the page was confirmed, and whether an
\* expect(pageTitle).toMatch failed on the way.
RECURSIVE IndicatorLoop(_, _)
IndicatorLoop(f, i) ==
  IF i > Len(Indicators) THEN [confirmed |-> FALSE, failed |-> FALSE]
  ELSE IF f[i] = "match" THEN [confirmed |-> TRUE, failed |-> FALSE]
  ELSE LET rest == IndicatorLoop(f, i + 1)
       IN  [confirmed |-> rest.confirmed,
            failed |-> rest.failed \/ f[i] = "nomatch"]

NoIndicator == [i \in 1..Len(Indicators) |-> "lapse"]

\* The inputs of the step, each consumed only if the step gets to it.
In9 ==
  Enumerated(
  {in \in [shotBefore : BOOLEAN, enabled : BOOLEAN, click : {"ok", "stall"},
           idle : BOOLEAN, url : {AlbumUrl, SearchUrl},
           indicators : IndicatorViews, shotAfter : BOOLEAN] :
     /\ ~in.shotBefore => in.enabled
     /\ ~in.enabled => in.click = "ok"
     /\ in.click = "stall" => in.idle
     /\ ~in.idle => in.url = AlbumUrl
     /\ (~in.shotBefore \/ ~in.enabled \/ in.click = "stall" \/ ~in.idle
           \/ ~ContainsAlbum(in.url))
          => (in.indicators = NoIndicator /\ in.shotAfter)
     /\ TRUE})

ClickAlbum(s, in) ==
  LET dom   == s.dom
      exact == Probe(ExactText, dom) = "visible"
      s0    == Begin(s)
      s1    == Wrote(s0, Evidence[11])
      \* try { exact text; expect visible } catch { title attribute, first }
      s2    == IF exact
                 THEN [s1 EXCEPT !.loc.handle = ExactText,
                                 !.loc.attempted = <<ExactText>>]
                 ELSE [Failed(s1, 353) EXCEPT
                         !.loc.handle = TitleAttrFirst,
                         !.loc.attempted = <<ExactText, TitleAttrFirst>>]
      h     == s2.loc.handle
      s3    == Act(s2, "click", h)
      \* the click navigates: the search page is gone
      s4    == [s3 EXCEPT !.url = in.url, !.dom = <<>>]
      loop  == IndicatorLoop(in.indicators, 1)
      s5    == IF loop.failed THEN Failed(s4, 390) ELSE s4
  IN  IF ~in.shotBefore THEN Throw(s0, Err("screenshot", Evidence[11]))
      ELSE IF ~exact /\ Probe(TitleAttrFirst, dom) # "visible"
        THEN Throw(Failed(s2, 357), Err("toBeVisible", TitleAttrFirst))
      ELSE IF ~in.enabled
        THEN Throw(Failed(s2, 361), Err("toBeEnabled", h))
      ELSE IF in.click = "stall" THEN Stall(s2)
      ELSE IF ~in.idle THEN Stall(s3)
      ELSE IF ~ContainsAlbum(in.url)
        THEN Throw(Failed(s4, 374), Err("toContain", "currentUrl"))
      ELSE IF ~in.shotAfter THEN Throw(s5, Err("screenshot", Evidence[12]))
      ELSE Return(Wrote(s5, Evidence[12]))

(* ------------------- step 10: click the play button ------------------- *)

\* for (let i = 0; i < buttonCount; i++): the first button from index i on
\* whose trimmed text is 'Play' and which is visible (0: none).
RECURSIVE ScanButtons(_, _)
ScanButtons(dom, i) ==
  IF i > Count(AllButtons, dom) THEN 0
  ELSE IF dom[i].text = "Play" /\ dom[i].visible THEN i
  ELSE ScanButtons(dom, i + 1)

\* The three strategies.  Strategy 1 assigns mainPlayButton before it tests
\* it, and strategy 2 assigns it again, so mainPlayButton is a locator, never
\* undefined, when strategy 3 ends.
PlayChain(dom) ==
  LET inside == Count(TracklistPlay, dom) > 0
      found  == ScanButtons(dom, 1)
      all    == <<RolePlayFirst, TextPlayFirst, AllButtons>>
  IN  IF Probe(RolePlayFirst, dom) = "visible" /\ ~inside
        THEN [handle |-> RolePlayFirst, used |-> "role-based main play button",
              attempted |-> <<RolePlayFirst>>, failed |-> {}]
      ELSE IF Probe(TextPlayFirst, dom) = "visible"
        THEN [handle |-> TextPlayFirst, used |-> "text-based main play button",
              attempted |-> <<RolePlayFirst, TextPlayFirst>>, failed |-> {}]
      ELSE IF found # 0
        THEN [handle |-> Nth(found),
              used |-> "fallback - first visible Play button",
              attempted |-> all, failed |-> {439}]
      ELSE [handle |-> TextPlayFirst, used |-> "", attempted |-> all,
            failed |-> {439}]

\* Whether the candidate of each strategy is visible on the page.
PlayCandidates(dom) ==
  <<Probe(RolePlayFirst, dom) = "visible",
    Probe(TextPlayFirst, dom) = "visible",
    ScanButtons(dom, 1) # 0>>

\* The album pages on which the button the chain settles on is visible.
PlayablePages ==
  {page \in AlbumPages : Probe(PlayChain(page).handle, page) = "visible"}

\* The other album pages on which mainPlayButton denotes a hidden button: the
\* 5000 ms of expect(mainPlayButton).toBeVisible() (line 468) begin after the
\* strategies have given up on it, and the button may be visible by then.
LatePages ==
  {page \in AlbumPages \ PlayablePages :
     Target(PlayChain(page).handle, page) # 0}

\* The page with the element of locator l made visible.
Appear(dom, l) ==
  [i \in DOMAIN dom |->
     IF i = Target(l, dom) THEN [dom[i] EXCEPT !.visible = TRUE] ELSE dom[i]]

\* What follows the resolution, each consumed only if the step gets to it.
After10 ==
  {t \in [enabled : BOOLEAN, shot : BOOLEAN, click : {"ok", "stall"},
          url : {AlbumUrl, OtherAlbumUrl, SearchUrl, LoginUrl}] :
     /\ ~t.enabled => t.shot
     /\ ~t.shot => t.click = "ok"
     /\ (~t.enabled \/ ~t.shot \/ t.click = "stall") => t.url = AlbumUrl}

\* page: the buttons of the album page once the network is idle; late:
\* whether the hidden button mainPlayButton denotes is visible when line 468
\* waits for it; url: the URL after the play click.
In10 ==
  Enumerated(
    {[idle |-> FALSE, page |-> <<>>, late |-> FALSE, enabled |-> TRUE,
      shot |-> TRUE, click |-> "ok", url |-> AlbumUrl]}
    \cup {[idle |-> TRUE, page |-> p, late |-> FALSE, enabled |-> TRUE,
           shot |-> TRUE, click |-> "ok", url |-> AlbumUrl] :
            p \in AlbumPages \ PlayablePages}
    \cup {[idle |-> TRUE, page |-> p, late |-> TRUE, enabled |-> t.enabled,
           shot |-> t.shot, click |-> t.click, url |-> t.url] :
            p \in LatePages, t \in After10}
    \cup {[idle |-> TRUE, page |-> p, late |-> FALSE, enabled |-> t.enabled,
           shot |-> t.shot, click |-> t.click, url |-> t.url] :
            p \in PlayablePages, t \in After10})

ClickPlayButton(s, in) ==
  LET dom == in.page
      c   == PlayChain(dom)
      s0  == Begin(s)
      s1  == [s0 EXCEPT !.loc.handle = c.handle, !.loc.used = c.used,
                        !.loc.attempted = c.attempted, !.loc.failed = c.failed,
                        !.loc.candidates = PlayCandidates(dom)]
      \* the page as lines 468-488 see it
      now == IF in.late THEN Appear(dom, c.handle) ELSE dom
      s2  == Wrote(s1, Evidence[13])
      s3  == Act([s2 EXCEPT !.loc.target = Target(c.handle, now),
                            !.loc.button = now[Target(c.handle, now)],
                            !.url = in.url],
                 "click", c.handle)
  IN  IF ~in.idle THEN Stall(s0)
      ELSE IF c.handle = "undefined"
        THEN Throw(s1, Err("Error",
                           "No suitable play button found with any strategy"))
      ELSE IF Probe(c.handle, now) # "visible"
        THEN Throw(Failed(s1, 468), Err("toBeVisible", c.handle))
      ELSE IF ~in.enabled
        THEN Throw(Failed(s1, 469), Err("toBeEnabled", c.handle))
      ELSE IF ~in.shot THEN Throw(s1, Err("screenshot", Evidence[13]))
      ELSE IF in.click = "stall" THEN Stall(s2)
      ELSE Return(s3)

(* ---------------- step 11: the authentication boundary ---------------- *)

AuthText == "Escute com uma conta gratuita do Spotify"

AuthPatterns ==
  <<"conta gratuita", "Spotify gratuito", "Escute", "Inscrever-se", "Entrar",
    "conta do Spotify">>

\* Which alternative patterns the loop finds visible within 1000 ms; the
\* patterns after the first one found are not looked at.
PatternViews ==
  {f \in [1..Len(AuthPatterns) -> BOOLEAN] :
     \A i, j \in 1..Len(AuthPatterns) : (i < j /\ f[i]) => ~f[j]}

\* for (const pattern of alternativePortuguesePatterns) {...}: alternativeFound
RECURSIVE AlternativeLoop(_, _)
AlternativeLoop(f, i) ==
  IF i > Len(AuthPatterns) THEN FALSE
  ELSE IF f[i] THEN TRUE
  ELSE AlternativeLoop(f, i + 1)

NoPattern == [i \in 1..Len(AuthPatterns) |-> FALSE]

\* prompt: how many visible elements contain AuthText within 5000 ms: none,
\* one, or many (the wait throws a strict mode violation).
In11 ==
  Enumerated(
  {in \in [prompt : {"none", "one", "many"}, shotModal : BOOLEAN,
           patterns : PatternViews, shotState : BOOLEAN] :
     /\ in.prompt # "one" => in.shotModal
     /\ (in.prompt = "one" /\ in.shotModal)
          => (in.patterns = NoPattern /\ in.shotState)})

ValidateAuthModal(s, in) ==
  LET s0 == [Begin(s) EXCEPT !.prompt = in.prompt]
      \* the catch block: look for the alternatives, log, capture
      Caught(t) ==
        LET t1 == [t EXCEPT !.loc.probe =
                     IF AlternativeLoop(in.patterns, 1) THEN "alternative"
                     ELSE "nothing"]
        IN  IF ~in.shotState THEN Throw(t1, Err("screenshot", Evidence[15]))
            ELSE Return(Wrote(t1, Evidence[15]))
  IN  IF in.prompt # "one"
        THEN Caught(SoftMiss(s0, "authentication prompt"))
      ELSE IF ~in.shotModal THEN Caught(s0)
      ELSE Return(Wrote([s0 EXCEPT !.loc.probe = "visible"], Evidence[14]))

(* --------------------- step 12: final validation ---------------------- *)

In12 == [shot : BOOLEAN]

\* The final step without its two URL assertions.
FinalValidationNoUrlCheck(s, in) ==
  LET s0 == Begin(s)
  IN  IF ~in.shot THEN Throw(s0, Err("screenshot", Evidence[16]))
      ELSE Return(Wrote(s0, Evidence[16]))

FinalValidation(s, in) ==
  LET s0 == Begin(s)
  IN  IF ~ContainsHost(s.url)
        THEN Throw(Failed(s0, 580), Err("toContain", "currentUrl"))
      ELSE IF ~ContainsAlbum(s.url)
        THEN Throw(Failed(s0, 581), Err("toContain", "currentUrl"))
      ELSE IF ~in.shot THEN Throw(s0, Err("screenshot", Evidence[16]))
      ELSE Return(Wrote(s0, Evidence[16]))

(* ------------------------------ actions ------------------------------- *)

\* A step of run r leaves the run as t; the screenshots it wrote are on disk.
Perform(r, t) ==
  /\ run' = [run EXCEPT ![r] = t]
  /\ files' = [p \in Paths |->
                 IF p \in run'[r].loc.wrote THEN r ELSE files[p]]
  /\ UNCHANGED selected

Ready(r, k) ==
  /\ run[r].outcome = "Running"
  /\ run[r].pc = k
  /\ ~run[r].blocked

\* beforeEach: cookies cleared, viewport set; the test body begins.
Start(r) ==
  /\ r \in selected
  /\ run[r].outcome = "NotStarted"
  /\ run' = [run EXCEPT ![r] = [NotStarted EXCEPT !.outcome = "Running", !.pc = 1]]
  /\ UNCHANGED <<files, selected>>

Step1(r) ==
  /\ Ready(r, 1)
  /\ \E in \in In1 : Perform(r, NavigateToHomepage(run[r], in))

Step2(r) ==
  /\ Ready(r, 2)
  /\ \E in \in In2 : Perform(r, ValidateLanguageButton(run[r], in))

Step3(r) ==
  /\ Ready(r, 3)
  /\ \E in \in In3 : Perform(r, OpenLanguageMenu(run[r], in))

Step4(r) ==
  /\ Ready(r, 4)
  /\ \E in \in In4 : Perform(r, SelectPortuguese(run[r], in))

Step5(r) ==
  /\ Ready(r, 5)
  /\ \E in \in In5 : Perform(r, ValidateLanguageChange(run[r], in))

Step6(r) ==
  /\ Ready(r, 6)
  /\ \E in \in In6 : Perform(r, FocusSearchInput(run[r], in))

Step7(r) ==
  /\ Ready(r, 7)
  /\ \E in \in In7 : Perform(r, TypeSearchQuery(run[r], in))

Step8(r) ==
  /\ Ready(r, 8)
  /\ \E in \in In8 : Perform(r, LocateAlbum(run[r], in))

Step9(r) ==
  /\ Ready(r, 9)
  /\ \E in \in In9 : Perform(r, ClickAlbum(run[r], in))

Step10(r) ==
  /\ Ready(r, 10)
  /\ \E in \in In10 : Perform(r, ClickPlayButton(run[r], in))

Step11(r) ==
  /\ Ready(r, 11)
  /\ \E in \in In11 : Perform(r, ValidateAuthModal(run[r], in))

Step12(r) ==
  /\ Ready(r, 12)
  /\ \E in \in In12 : Perform(r, FinalValidation(run[r], in))


\* A test timeout that is looked at only between awaits: it ends no step
\* that is waiting.
TestTimeoutBetweenAwaits(r) ==
  /\ run[r].outcome = "Running"
  /\ ~run[r].blocked
  /\ run' = [run EXCEPT ![r] = Throw(@, Err("test timeout", StepNames[@.pc]))]
  /\ UNCHANGED <<files, selected>>

\* timeout: 60 * 1000: the runner ends a test that is still running.
TestTimeout(r) ==
  /\ run[r].outcome = "Running"
  /\ run' = [run EXCEPT ![r] = Throw(@, Err("test timeout", StepNames[@.pc]))]
  /\ UNCHANGED <<files, selected>>

\* One project is selected, as by `npx playwright test --project=Chromium`;
\* no test has started and no evidence file is written.
Init ==
  /\ selected = {"Chromium"}
  /\ run = [p \in Projects |-> NotStarted]
  /\ files = [p \in Paths |-> "none"]

Next ==
  \E r \in Projects :
    \/ Start(r)
    \/ Step1(r)
    \/ Step2(r)
    \/ Step3(r)
    \/ Step4(r)
    \/ Step5(r)
    \/ Step6(r)
    \/ Step7(r)
    \/ Step8(r)
    \/ Step9(r)
    \/ Step10(r)
    \/ Step11(r)
    \/ Step12(r)
    \/ TestTimeout(r)

Spec == Init /\ [][Next]_vars

\* The scheduling of the runner: the test of a selected project is started,
\* and the timer of the test timeout, armed for every running test, fires.
\* Nothing is assumed of the steps: an await may settle or not.
Fairness ==
  \A r \in Projects : WF_vars(Start(r)) /\ WF_vars(TestTimeout(r))

SpecFair == Spec /\ Fairness

\* fullyParallel: true with the three projects of the configuration: a plain
\* `npx playwright test` starts one run of the test per project, each in its
\* own worker, and the workers share the evidence/ directory of the
\* repository.  Two of the projects are followed here through the first
\* three steps of the journey, which already write evidence files.
InitParallel ==
  /\ selected = {"Chromium", "Firefox"}
  /\ run = [p \in Projects |-> NotStarted]
  /\ files = [p \in Paths |-> "none"]

NextParallel ==
  \E r \in Projects :
    \/ Start(r)
    \/ Step1(r)
    \/ Step2(r)
    \/ Step3(r)
    \/ TestTimeout(r)

SpecParallel == InitParallel /\ [][NextParallel]_vars

(* ------------------------------- claims ------------------------------- *)

\* Whether the query of locator l matches an element of the page that is
\* visible: the strategy that uses l has a visible candidate.
HasVisible(l, dom) == \E i \in ResolveAll(l, dom) : dom[i].visible

\* The strategies of the album-locate chain, by priority.
LocateOrder == <<ExactText, PartialText, TitleAttr, CardFilter>>

\* The strategy names of the play-button chain, by priority.
PlayOrder ==
  <<"role-based main play button", "text-based main play button",
    "fallback - first visible Play button">>

\* C1: whenever the album-locate chain or the play-button chain succeeds, the
\* strategy it records is the highest-priority strategy whose candidate is
\* visible: no strategy of a higher priority has a visible candidate.
HighestPriorityStrategyUsed ==
  \A r \in Projects :
    LET s == run[r]
    IN  /\ (s.loc.step = 8 /\ s.loc.used # "")
             => \A i, j \in 1..Len(LocateOrder) :
                  (LocateOrder[j] = s.loc.handle /\ i < j)
                    => ~HasVisible(LocateOrder[i], s.dom)
        /\ (s.loc.step = 10 /\ s.loc.used # "")
             => \A i, j \in 1..Len(PlayOrder) :
                  (PlayOrder[j] = s.loc.used /\ i < j)
                    => ~s.loc.candidates[i]

\* The expect calls of the test that stand in no try block.
MandatoryLines ==
  {50, 51, 67, 68, 75, 76, 136, 137, 144, 145, 168, 202, 203, 204, 211, 224,
   243, 316, 324, 327, 357, 361, 374, 468, 469, 580, 581}

\* C2: the steps run in their one order, each at most once: a run's position
\* only ever moves to the next step, it moves there only from a running step
\* none of whose mandatory assertions failed, a page action is performed only
\* by the step the run is at, and a failed run does nothing more (no later
\* step acts, nothing is retried).
StepsInOrderNoRetry ==
  [][\A r \in Projects :
       LET s == run[r]
           t == run'[r]
       IN  /\ t.pc \in {s.pc, s.pc + 1}
           /\ (t.pc = s.pc + 1 /\ s.pc >= 1)
                => /\ s.outcome = "Running"
                   /\ t.loc.step = s.pc
                   /\ t.loc.failed \cap MandatoryLines = {}
           /\ \A i \in 1..Len(t.acts) :
                IF i <= Len(s.acts) THEN t.acts[i] = s.acts[i]
                ELSE s.outcome = "Running" /\ t.acts[i][1] = s.pc
           /\ s.outcome = "Failed" => t = s]_vars

\* A run whose sixth step failed on a mandatory assertion after earlier steps
\* had clicked: the run stopped at that step.
StepsInOrderNoRetryWitness ==
  \E r \in Projects :
    /\ run[r].outcome = "Failed"
    /\ run[r].error.step = 6
    /\ run[r].pc = 6
    /\ 224 \in run[r].loc.failed
    /\ Len(run[r].acts) = 4

\* C3: a soft miss never changes the outcome: when the language menu or the
\* search suggestions were not seen within their wait, the step that looked
\* for them still completes and the run is at a later step.
SoftMissKeepsOutcome ==
  \A r \in Projects :
    (run[r].loc.step \in {3, 7} /\ run[r].loc.soft # {})
      => run[r].pc > run[r].loc.step

\* C4: a run ends Verified only if the prompt 'Escute com uma conta gratuita
\* do Spotify' was on the page after the play click.
VerifiedOnlyWithPrompt ==
  \A r \in Projects : run[r].outcome = "Verified" => run[r].prompt # "none"

\* C5: the language-validation step completes only if an element matching
\* the Portuguese text pattern was seen.
LanguageStepNeedsPortuguese ==
  \A r \in Projects :
    (run[r].loc.step = 5 /\ run[r].pc > 5) => run[r].loc.probe = "visible"

\* Whether the locale-option step of run state s found the pt-BR option not
\* visible.
OptionNotVisible(s) == s.loc.step = 4 /\ s.loc.probe = "hidden"

\* C6: if the pt-BR option does not become visible, the run ends Failed at
\* the locale-option step with an error that names the option's locator, the
\* option is not clicked, and from then on the run does nothing: no later
\* step acts.
LocaleOptionMissingFails ==
  [][\A r \in Projects :
       /\ OptionNotVisible(run'[r])
            => /\ run'[r].outcome = "Failed"
               /\ run'[r].pc = 4
               /\ run'[r].error =
                    [kind |-> "toBeVisible", target |-> PtBROption, step |-> 4]
               /\ \A i \in 1..Len(run'[r].acts) : run'[r].acts[i][1] < 4
       /\ OptionNotVisible(run[r]) => run'[r] = run[r]]_vars

\* A run that failed at the locale-option step because the option was not
\* visible, after it had clicked the language button.
LocaleOptionMissingWitness ==
  \E r \in Projects :
    /\ OptionNotVisible(run[r])
    /\ run[r].outcome = "Failed"
    /\ 136 \in run[r].loc.failed
    /\ Len(run[r].acts) = 2

\* The strategies an error names: the locator in its message.
Payload(e) == <<e.target>>

\* C7: when every strategy of the album-locate chain or of the play-button
\* chain failed, the error that ends the step lists exactly the strategies
\* that were attempted, in order.
FailurePayloadListsStrategies ==
  \A r \in Projects :
    LET s == run[r]
    IN  (/\ s.outcome = "Failed"
         /\ s.error.step = s.loc.step
         /\ s.loc.step \in {8, 10}
         /\ s.loc.attempted # <<>>
         /\ s.loc.used = "")
          => Payload(s.error) = s.loc.attempted

\* C8: when the exact-text query of the album-locate chain matches several
\* entries, and the first of them in document order is visible, the chain
\* accepts that strategy: it does not fall through to a later strategy, and
\* the step does not fail on the match.
MultipleMatchesAccepted ==
  \A r \in Projects :
    LET s == run[r]
    IN  (/\ s.loc.step = 8
         /\ s.loc.attempted # <<>>
         /\ Count(ExactText, s.dom) > 1
         /\ s.dom[Min(ResolveAll(ExactText, s.dom))].visible)
          => /\ s.loc.used = "exact text match"
             /\ s.loc.handle = ExactText
             /\ s.error.kind \notin {"strict mode violation", "timeout"}

\* C9: no failed expect is swallowed: when the title-text match on a visible
\* album-page indicator fails, the album-click step fails with it.
TitleMatchFailureFatal ==
  \A r \in Projects :
    390 \in run[r].loc.failed
      => /\ run[r].outcome = "Failed"
         /\ run[r].error.step = 9
         /\ run[r].error.kind = "toMatch"

\* C10: evidence capture is not load-bearing: two runs of the first step over
\* the same page behaviour, one whose screenshot call succeeds and one whose
\* call fails, end the step with the same outcome.
ScreenshotsNotLoadBearing ==
  \A r \in Projects :
    Ready(r, 1)
      => \A a, b \in In1 :
           (a.nav = b.nav /\ a.url = b.url /\ a.title = b.title)
             => NavigateToHomepage(run[r], a).outcome
                  = NavigateToHomepage(run[r], b).outcome

\* C11: concurrent runs share no mutable state: an evidence screenshot file
\* written by one run is never written again by another run, in any
\* interleaving of the runs of the projects.
EvidenceNotShared ==
  [][\A p \in Paths : files[p] # "none" => files'[p] = files[p]]_vars

\* The operations step k of run r has performed on the page.
ActsOf(r, k) ==
  {i \in DOMAIN run[r].acts : run[r].acts[i][1] = k}

\* C12: probing does not mutate the page: the album-locate step, which is a
\* fallback chain followed by assertions, performs no click, fill, clear or
\* navigation at all, and the only operation of the play-button step is the
\* one click that follows its chain, on the handle the chain returned, after
\* that handle passed the visibility assertion.
ProbingIsReadOnly ==
  \A r \in Projects :
    /\ ActsOf(r, 8) = {}
    /\ Cardinality(ActsOf(r, 10)) <= 1
    /\ \A i \in ActsOf(r, 10) :
         /\ run[r].acts[i][2] = "click"
         /\ i = Len(run[r].acts)
         /\ run[r].loc.step = 10 =>
              /\ run[r].acts[i][3] = run[r].loc.handle
              /\ Len(run[r].loc.attempted) >= 1
              /\ 468 \notin run[r].loc.failed

\* The play-button chain fell through to its third strategy and the step
\* then clicked, after the locate step and the album click had run.
ProbingIsReadOnlyWitness ==
  \E r \in Projects :
    /\ run[r].loc.step = 10
    /\ Len(run[r].loc.attempted) = 3
    /\ ActsOf(r, 10) # {}
    /\ \E i \in DOMAIN run[r].acts : run[r].acts[i][1] = 9

\* A run that has ended, one way or the other.
Terminal(r) == run[r].outcome \in {"Verified", "Failed"}

\* C13: every run of a selected project eventually reaches a terminal state,
\* Verified or Failed, and stays there; it is Verified exactly when all
\* twelve steps returned, and Failed with the error of the step that threw
\* or of the test timeout that ended the step in flight; no step waits
\* forever.
RunsTerminate ==
  /\ \A r \in Projects : [](r \in selected => <>[]Terminal(r))
  /\ [](\A r \in Projects :
          /\ run[r].outcome = "Verified" <=> run[r].pc = NumSteps + 1
          /\ run[r].outcome = "Failed" =>
               /\ run[r].error # NoError
               /\ run[r].error.step = run[r].pc
               /\ run[r].pc <= NumSteps)
  /\ [][\A r \in Projects : Terminal(r) => run'[r] = run[r]]_vars

\* A step was waiting on an await that never settles when the test timeout
\* ended the run.
RunsTerminateWitness ==
  \E r \in Projects :
    /\ run[r].outcome = "Failed"
    /\ run[r].blocked
    /\ run[r].error.kind = "test timeout"

\* The locators of the album-click step, by priority.
ClickOrder == <<ExactText, TitleAttrFirst>>

\* The handles a strategy of the play-button chain can yield, by priority.
PlayHandles ==
  <<{RolePlayFirst}, {TextPlayFirst},
    {Nth(i) : i \in DOMAIN NthButton} \cup {TextPlayFirst}>>

\* Sequence a is a non-empty prefix of sequence b.
IsPrefix(a, b) ==
  /\ 1 <= Len(a)
  /\ Len(a) <= Len(b)
  /\ a = SubSeq(b, 1, Len(a))

\* C14: in the album-locate, album-click and play-button steps the strategies
\* are tried in one fixed priority order, the handle kept is the result of
\* the last strategy tried, a resolution that succeeds yields a handle that
\* denotes exactly one element of the page, and the click of a step is
\* performed only on a handle that denotes exactly one element.
OneElementOrNothing ==
  [][\A r \in Projects :
       LET s == run[r]
           t == run'[r]
           k == t.loc.step
           n == Len(t.loc.attempted)
           clicked == Len(t.acts) > Len(s.acts)
       IN  (s.outcome = "Running" /\ s.pc = k /\ t # s /\ n >= 1) =>
             CASE k = 8 ->
                    /\ IsPrefix(t.loc.attempted, LocateOrder)
                    /\ t.loc.handle = LocateOrder[n]
                    /\ ~clicked
                    /\ t.loc.used # "" => Count(t.loc.handle, t.dom) = 1
                    /\ t.loc.used = "" => t.outcome = "Failed"
               [] k = 9 ->
                    /\ IsPrefix(t.loc.attempted, ClickOrder)
                    /\ t.loc.handle = ClickOrder[n]
                    /\ clicked => Count(t.loc.handle, s.dom) = 1
               [] k = 10 ->
                    /\ IsPrefix(t.loc.attempted,
                                <<RolePlayFirst, TextPlayFirst, AllButtons>>)
                    /\ t.loc.handle \in PlayHandles[n]
                    /\ clicked => t.loc.target # 0
               [] OTHER -> TRUE]_vars

\* The locate step settled on a lower-priority strategy after a strategy of a
\* higher priority resolved to several entries.
OneElementOrNothingWitness ==
  \E r \in Projects :
    /\ run[r].loc.step = 8
    /\ run[r].loc.used # ""
    /\ Count(ExactText, run[r].dom) > 1
    /\ run[r].pc = 9

\* C15: the result entry the album-click step clicks is always an entry whose
\* text exactly matches "The Dark Side of the Moon".
ClickedEntryIsExact ==
  [][\A r \in Projects :
       LET s == run[r]
           t == run'[r]
       IN  (s.outcome = "Running" /\ s.pc = 9 /\ t.loc.step = 9
              /\ Len(t.acts) > Len(s.acts)) =>
             s.dom[Target(t.loc.handle, s.dom)].text = "exact"]_vars

\* C16: when none of the three strategies of the play-button step finds a
\* play button, the step fails by throwing 'No suitable play button found
\* with any strategy', and it performs no click.
NoPlayButtonThrows ==
  \A r \in Projects :
    (run[r].loc.step = 10 /\ Len(run[r].loc.attempted) = 3
       /\ run[r].loc.used = "") =>
      /\ run[r].outcome = "Failed"
      /\ run[r].error.target
           = "No suitable play button found with any strategy"
      /\ ActsOf(r, 10) = {}

\* C17: the play button the play-button step clicks is never a button inside
\* the tracklist area.
ClickedPlayOutsideTracklist ==
  \A r \in Projects :
    (run[r].loc.step = 10 /\ ActsOf(r, 10) # {}) =>
      ~run[r].loc.button.tracklist

\* The names the album-locate chain records, by priority.
LocateNames ==
  <<"exact text match", "partial text match", "title attribute",
    "data-testid + text filter fallback">>

\* C18: whenever the play-button step reaches its click, strategyUsed is
\* non-empty and names the strategy that produced the button clicked; and
\* whenever the album-locate step reaches its assertions, selectorUsed is
\* non-empty and names the strategy that produced the entry.
UsedNamesTheStrategy ==
  \A r \in Projects :
    LET s == run[r]
        n == Len(s.loc.attempted)
    IN  /\ (s.loc.step = 10 /\ ActsOf(r, 10) # {}) =>
             /\ s.loc.used = PlayOrder[n]
             /\ s.loc.handle \in PlayHandles[n]
        /\ (s.loc.step = 8 /\ n >= 1
              /\ ~(s.outcome = "Failed"
                     /\ s.error.kind \in {"timeout", "strict mode violation"}))
             =>
             /\ s.loc.used = LocateNames[n]
             /\ s.loc.handle = LocateOrder[n]

ClickStepResolvesLocated ==
  [][\A r \in Projects :
       LET s == run[r]
           t == run'[r]
       IN  (s.outcome = "Running" /\ s.pc = 9 /\ s.loc.step = 8
              /\ t.loc.step = 9) =>
             /\ 357 \notin t.loc.failed
             /\ Len(t.acts) > Len(s.acts) =>
                  Target(t.loc.handle, s.dom) = Target(s.loc.handle, s.dom)]_vars

====
